---------------------------- MODULE Spec2Model ----------------------------
(***************************************************************************)
(* The timed Quiz component (components/quiz/Quiz.tsx) hosted by the       *)
(* LanguageLearning component.                                             *)
(*                                                                         *)
(* React semantics used by the model (React 18+, automatic batching):      *)
(*  - every handler runs to completion and its state updates are applied   *)
(*    together, followed by one render and the effects whose dependencies  *)
(*    changed; a handler is therefore one action;                          *)
(*  - the timer effect depends on [currentQuestionIndex, isComplete] only, *)
(*    so the interval callback keeps the handleTimeUp of the render in     *)
(*    which the question became current; the values that render saw are    *)
(*    kept in the variable timerClosure;                                   *)
(*  - a callback given to setTimeout keeps the values of the render whose  *)
(*    handleAnswerSubmit created it;                                       *)
(*  - a state update of an unmounted component is dropped;                 *)
(*  - a render that throws (no error boundary) unmounts the tree.          *)
(*                                                                         *)
(* Time is counted in units of 500 ms, so that a click can fall between    *)
(* two ticks of the 1-second interval.  A timer fires at the instant it is *)
(* due; timers due at the same instant fire in either order.               *)
(*                                                                         *)
(* The text-to-speech service (utils/textToSpeech.ts) and the speak        *)
(* handlers of the three user interfaces are a second specification,       *)
(* TTSSpec.  A speak call is a record in calls; the provider's answer and  *)
(* the outcome of the playback are chosen by the environment.  The browser *)
(* synthesizer is taken to be present ('speechSynthesis' in window).       *)
(***************************************************************************)
EXTENDS Integers, Sequences, FiniteSets, Bags, TLC

\* ------------------------------------------------------------------ bounds
MaxQuestions == 3
MaxTimeLimit == 2
\* speak calls of one page session
MaxCalls == 2
\* TextToSpeechService instances created in one page session
MaxInstances == 2
\* getVoices / checkCredits calls of one page session
MaxReads == 2

\* ------------------------------------------------------- program constants
\* setInterval(..., 1000), in units of 500 ms
TickPeriod == 2
\* setTimeout(..., 2000), in units of 500 ms
AdvanceDelay == 4
\* Math.floor((Date.now() - startTime) / 1000), in units of 500 ms
UnitsPerSecond == 2
\* selected: number | null
null == -1

VARIABLES
    questions,              \* props.questions: sequence of correctAnswer, id = position
    timeLimit,              \* props.timeLimit, seconds per question
    now,                    \* Date.now(), units of 500 ms
    currentQuestionIndex,   \* useState(0)
    selectedAnswer,         \* useState(null)
    showResult,             \* useState(false)
    results,                \* useState([])
    timeLeft,               \* useState(timeLimit)
    startTime,              \* useState(Date.now())
    isComplete,             \* useState(false)
    mounted,                \* the Quiz element is in the tree
    crashed,                \* a render threw: questions[currentQuestionIndex] undefined
    mode,                   \* LanguageLearning.mode
    timerClosure,           \* values captured by the interval callback
    intervalNext,           \* instant of the next interval tick
    timeouts,               \* pending auto-advance timeouts
    delivered,              \* calls of onComplete: <<[score, results]>>
    submitted,              \* questions whose "Submit Answer" button was clicked
    selectOutcome,          \* what the step did with a click on an option button
    storedKey,              \* localStorage 'elevenlabs_api_key' ("" when absent)
    instances,              \* apiKey of every TextToSpeechService constructed
    ttsService,             \* the singleton: index into instances, 0 for null
    keyState,               \* elevenlabsKey state of the chat App (speakWithElevenLabs)
    ttsEnabled,             \* LanguageLearning.ttsEnabled
    calls,                  \* the speak calls made so far (a bag of call records)
    reads,                  \* the getVoices / checkCredits calls made so far
    agentState,             \* agent.state of the chat agent (a function of its fields)
    lastTool,               \* the last memory tool executed and the memory it found
    messages,               \* standalone chat: the message list
    input,                  \* standalone chat: the text in the input box
    isLoading,              \* standalone chat: a response is pending
    pendingReplies,         \* standalone chat: setTimeout callbacks not yet run
    submitOutcome,          \* what the step did with a submit of the chat form
    selectedAnswers,        \* inline quiz: option chosen per question key
    quizResults,            \* inline quiz: correctness per question key
    lastClick,              \* the last click on an option of an inline quiz
    learningMode,           \* LanguageLearning.mode, for the flashcard and create handlers
    flashcards,             \* LanguageLearning.flashcards (card ids)
    quizQuestions,          \* LanguageLearning.quizQuestions (question ids)
    currentCardIndex,       \* LanguageLearning.currentCardIndex
    isCardFlipped,          \* LanguageLearning.isCardFlipped
    learningLoading,        \* LanguageLearning.isLoading
    error,                  \* LanguageLearning.error ("" for null)
    pendingCreates,         \* create operations awaiting their callback
    lastCreate,             \* the create operation that finished last, and how
    currentFlashcardIndex,  \* App.currentFlashcardIndex (mode-based App)
    appCardFlipped,         \* App.isCardFlipped (mode-based App)
    lastNav                 \* the last flashcard action, and the index it found

quizVars == <<questions, timeLimit, now, currentQuestionIndex, selectedAnswer,
              showResult, results, timeLeft, startTime, isComplete, mounted,
              crashed, mode, timerClosure, intervalNext, timeouts, delivered,
              submitted, selectOutcome>>

ttsVars == <<storedKey, instances, ttsService, keyState, ttsEnabled, calls, reads>>

memVars == <<agentState, lastTool>>

chatVars == <<messages, input, isLoading, pendingReplies, submitOutcome,
              selectedAnswers, quizResults, lastClick>>

hostVars == <<learningMode, flashcards, quizQuestions, currentCardIndex,
              isCardFlipped, learningLoading, error, pendingCreates, lastCreate,
              currentFlashcardIndex, appCardFlipped, lastNav>>

appVars == <<memVars, chatVars, hostVars>>

vars == <<quizVars, ttsVars, appVars>>

\* ----------------------------------------------------------- pure helpers
\* correctAnswer of the spec's scenario: correctOptionIndex = [1,0,2]
ScenarioAnswers == <<1, 0, 2>>

\* options.length of every question: the scenario's questions have three options,
\* which gives a click the three cases there are (the correct option, and two
\* different wrong ones)
NumOptions == Len(ScenarioAnswers)

\* The component reads correctAnswer only to compare it with the selected option,
\* so renaming the options of one question changes no behaviour.  The question
\* lists are enumerated up to that renaming: every length, and every rotation of
\* the scenario's answers.
QuestionLists ==
    {[i \in 1 .. n |-> ScenarioAnswers[((i + r - 1) % Len(ScenarioAnswers)) + 1]] :
        n \in 1 .. MaxQuestions, r \in 0 .. Len(ScenarioAnswers) - 1}

RECURSIVE CorrectCount(_)
\* finalResults.filter(r => r.correct).length
CorrectCount(rs) ==
    IF rs = <<>> THEN 0
    ELSE (IF Head(rs).correct THEN 1 ELSE 0) + CorrectCount(Tail(rs))

\* Math.round(x) for x = 100 * c / n >= 0: floor(x + 1/2)
RoundPercent(c, n) == (200 * c + n) \div (2 * n)

\* Math.round((finalResults.filter(r => r.correct).length / finalResults.length) * 100)
Score(finalResults) == RoundPercent(CorrectCount(finalResults), Len(finalResults))

\* LiveClosure as it would be if the button kept the handler of the render in
\* which the question became current
LiveClosure_Stale == timerClosure

\* the render's closure: the state values a handler created by that render reads
LiveClosure ==
    [currentQuestionIndex |-> currentQuestionIndex,
     selectedAnswer       |-> selectedAnswer,
     showResult           |-> showResult,
     results              |-> results,
     startTime            |-> startTime]

\* MakeResult with the comparison inverted (!== for ===)
MakeResult_Inverted(c) ==
    [questionId |-> c.currentQuestionIndex,
     selected   |-> c.selectedAnswer,
     correct    |-> (c.selectedAnswer # questions[c.currentQuestionIndex + 1]),
     timeSpent  |-> (now - c.startTime) \div UnitsPerSecond]

\* the QuizResult built by handleAnswerSubmit from the closure c
MakeResult(c) ==
    [questionId |-> c.currentQuestionIndex,
     selected   |-> c.selectedAnswer,
     correct    |-> (c.selectedAnswer = questions[c.currentQuestionIndex + 1]),
     timeSpent  |-> (now - c.startTime) \div UnitsPerSecond]

\* the timeout scheduled by handleAnswerSubmit from the closure c
MakeTimeout(c, src) ==
    [due                  |-> now + AdvanceDelay,
     currentQuestionIndex |-> c.currentQuestionIndex,
     newResults           |-> Append(c.results, MakeResult(c)),
     src                  |-> src]

\* ------------------------------------------------------------------- Init
QuizInit ==
    /\ questions \in QuestionLists
    /\ timeLimit \in 1 .. MaxTimeLimit
    /\ now = 0
    /\ currentQuestionIndex = 0
    /\ selectedAnswer = null
    /\ showResult = FALSE
    /\ results = <<>>
    /\ timeLeft = timeLimit
    /\ startTime = 0
    /\ isComplete = FALSE
    /\ mounted = TRUE
    /\ crashed = FALSE
    /\ mode = "quiz"
    /\ timerClosure = [currentQuestionIndex |-> 0, selectedAnswer |-> null,
                       showResult |-> FALSE, results |-> <<>>, startTime |-> 0]
    /\ intervalNext = TickPeriod
    /\ timeouts = {}
    /\ delivered = <<>>
    /\ submitted = {}
    /\ selectOutcome = "none"

\* a page session in which no key was ever stored and nothing was spoken
TTSIdle ==
    /\ storedKey = ""
    /\ instances = <<>>
    /\ ttsService = 0
    /\ keyState = ""
    /\ ttsEnabled = FALSE
    /\ calls = EmptyBag
    /\ reads = <<>>

\* an object without properties: {}
EmptyObject == [k \in {} |-> ""]

\* an agent whose state has no memory yet and whose tools have not run
MemIdle ==
    /\ agentState = EmptyObject
    /\ lastTool = [op |-> "none", key |-> "", value |-> "", before |-> EmptyObject]

\* the initial messages state: the system message alone
SystemOnly == <<[role |-> "system", content |-> "system", quiz |-> "none"]>>

NoClick == [m |-> 0, q |-> 0, opt |-> 0, outcome |-> "none"]

\* the standalone chat after mount
ChatIdle ==
    /\ messages = SystemOnly
    /\ input = ""
    /\ isLoading = FALSE
    /\ pendingReplies = {}
    /\ submitOutcome = "none"
    /\ selectedAnswers = EmptyObject
    /\ quizResults = EmptyObject
    /\ lastClick = NoClick

NoNav == [host |-> "none", action |-> "none", via |-> "none", from |-> 0]

NoCreate == [what |-> "none", outcome |-> "none"]

\* LanguageLearning and the mode-based App after mount
HostIdle ==
    /\ learningMode = "home"
    /\ flashcards = <<>>
    /\ quizQuestions = <<>>
    /\ currentCardIndex = 0
    /\ isCardFlipped = FALSE
    /\ learningLoading = FALSE
    /\ error = ""
    /\ pendingCreates = EmptyBag
    /\ lastCreate = NoCreate
    /\ currentFlashcardIndex = 0
    /\ appCardFlipped = FALSE
    /\ lastNav = NoNav

AppIdle == MemIdle /\ ChatIdle /\ HostIdle

\* a Quiz over one question, left alone while another component is exercised
QuizFixed ==
    /\ QuizInit
    /\ questions = <<ScenarioAnswers[1]>>
    /\ timeLimit = 1

Init == QuizInit /\ TTSIdle /\ AppIdle

\* ---------------------------------------------------------------- actions
\* handleAnswerSubmit run with the closure c
HandleAnswerSubmit(c, src) ==
    /\ results' = Append(c.results, MakeResult(c))
    /\ showResult' = TRUE
    /\ timeouts' = timeouts \cup {MakeTimeout(c, src)}

\* HandleAnswerSelect without the showResult guard (and the button not disabled)
HandleAnswerSelect_NoGuard(answerIndex) ==
    /\ mounted /\ ~isComplete
    /\ selectedAnswer' = answerIndex
    /\ selectOutcome' = IF showResult THEN "returned" ELSE "selected"
    /\ UNCHANGED <<questions, timeLimit, now, currentQuestionIndex, showResult,
                   results, timeLeft, startTime, isComplete, mounted, crashed,
                   mode, timerClosure, intervalNext, timeouts, delivered, submitted>>
    /\ UNCHANGED <<ttsVars, appVars>>

\* a click on an option button -> handleAnswerSelect(answerIndex).  While showResult
\* is set the button is disabled and the handler returns at once: either way the
\* click has no effect and nothing is thrown ("returned").
HandleAnswerSelect(answerIndex) ==
    /\ mounted /\ ~isComplete
    /\ IF showResult
       THEN /\ selectedAnswer' = selectedAnswer
            /\ selectOutcome' = "returned"
       ELSE /\ selectedAnswer' = answerIndex
            /\ selectOutcome' = "selected"
    /\ UNCHANGED <<questions, timeLimit, now, currentQuestionIndex, showResult,
                   results, timeLeft, startTime, isComplete, mounted, crashed,
                   mode, timerClosure, intervalNext, timeouts, delivered, submitted>>
    /\ UNCHANGED <<ttsVars, appVars>>

\* "Submit Answer" button onClick -> handleAnswerSubmit of the latest render
SubmitClick ==
    /\ mounted /\ ~isComplete
    /\ ~showResult /\ selectedAnswer # null
    /\ HandleAnswerSubmit(LiveClosure, "button")
    /\ submitted' = submitted \cup {currentQuestionIndex}
    /\ selectOutcome' = "none"
    /\ UNCHANGED <<questions, timeLimit, now, currentQuestionIndex, selectedAnswer,
                   timeLeft, startTime, isComplete, mounted, crashed, mode,
                   timerClosure, intervalNext, delivered>>
    /\ UNCHANGED <<ttsVars, appVars>>

\* TimeUpClosure as it would be if the interval callback read the latest render
TimeUpClosure_Live == LiveClosure

\* the closure whose handleTimeUp the interval callback calls: the one of the render
\* in which the timer effect last ran
TimeUpClosure == timerClosure

\* the setInterval callback: setTimeLeft(prev => ...) with handleTimeUp of timerClosure
Tick ==
    /\ mounted /\ ~isComplete
    /\ now = intervalNext
    /\ intervalNext' = now + TickPeriod
    /\ selectOutcome' = "none"
    /\ IF timeLeft <= 1
       THEN /\ timeLeft' = 0
            /\ IF ~TimeUpClosure.showResult
               THEN HandleAnswerSubmit(TimeUpClosure, "timer")
               ELSE UNCHANGED <<results, showResult, timeouts>>
       ELSE /\ timeLeft' = timeLeft - 1
            /\ UNCHANGED <<results, showResult, timeouts>>
    /\ UNCHANGED <<questions, timeLimit, now, currentQuestionIndex, selectedAnswer,
                   startTime, isComplete, mounted, crashed, mode, timerClosure,
                   delivered, submitted>>
    /\ UNCHANGED <<ttsVars, appVars>>

\* handleNextQuestion, then the render and the two effects keyed on currentQuestionIndex
HandleNextQuestion ==
    IF ~mounted
    THEN UNCHANGED <<currentQuestionIndex, selectedAnswer, showResult, timeLeft,
                     startTime, timerClosure, intervalNext, mounted, crashed>>
    ELSE /\ currentQuestionIndex' = currentQuestionIndex + 1
         /\ selectedAnswer' = null
         /\ showResult' = FALSE
         /\ IF currentQuestionIndex + 1 >= Len(questions)
            THEN \* currentQuestion is undefined: currentQuestion.question throws
                 /\ mounted' = FALSE
                 /\ crashed' = TRUE
                 /\ UNCHANGED <<timeLeft, startTime, timerClosure, intervalNext>>
            ELSE /\ timerClosure' = [currentQuestionIndex |-> currentQuestionIndex + 1,
                                     selectedAnswer |-> null,
                                     showResult |-> FALSE,
                                     results |-> results,
                                     startTime |-> startTime]
                 /\ intervalNext' = now + TickPeriod
                 /\ timeLeft' = timeLimit
                 /\ startTime' = now
                 /\ UNCHANGED <<mounted, crashed>>

\* LanguageLearning.handleQuizComplete: setMode('home') unmounts the Quiz
HostOnComplete(score, finalResults) ==
    /\ delivered' = Append(delivered, [score |-> score, results |-> finalResults])
    /\ mode' = IF crashed THEN mode ELSE "home"
    /\ mounted' = FALSE

\* Quiz.handleQuizComplete(finalResults)
HandleQuizComplete(finalResults) ==
    /\ isComplete' = (isComplete \/ mounted)
    /\ HostOnComplete(Score(finalResults), finalResults)

\* HasNextQuestion with the last index off by one
HasNextQuestion_OffByOne(index) == index < Len(questions) - 2

\* the test of the setTimeout callback: currentQuestionIndex < questions.length - 1
HasNextQuestion(index) == index < Len(questions) - 1

\* the setTimeout callback created by handleAnswerSubmit
FireTimeout(t) ==
    /\ t \in timeouts
    /\ t.due = now
    /\ timeouts' = timeouts \ {t}
    /\ selectOutcome' = "none"
    /\ IF HasNextQuestion(t.currentQuestionIndex)
       THEN /\ HandleNextQuestion
            /\ UNCHANGED <<isComplete, mode, delivered>>
       ELSE /\ HandleQuizComplete(t.newResults)
            /\ UNCHANGED <<currentQuestionIndex, selectedAnswer, showResult, timeLeft,
                           startTime, timerClosure, intervalNext, crashed>>
    /\ UNCHANGED <<questions, timeLimit, now, results, submitted>>
    /\ UNCHANGED <<ttsVars, appVars>>

\* "Back to Home" button of LanguageLearning.renderQuiz: setMode('home')
LeaveQuiz ==
    /\ mounted
    /\ mode' = "home"
    /\ mounted' = FALSE
    /\ selectOutcome' = "none"
    /\ UNCHANGED <<questions, timeLimit, now, currentQuestionIndex, selectedAnswer,
                   showResult, results, timeLeft, startTime, isComplete, crashed,
                   timerClosure, intervalNext, timeouts, delivered, submitted>>
    /\ UNCHANGED <<ttsVars, appVars>>

IntervalActive == mounted /\ ~isComplete

\* 500 ms pass; a timer that is due fires first
AdvanceTime ==
    /\ IntervalActive \/ timeouts # {}
    /\ ~(IntervalActive /\ intervalNext = now)
    /\ \A t \in timeouts : t.due # now
    /\ now' = now + 1
    /\ selectOutcome' = "none"
    /\ UNCHANGED <<questions, timeLimit, currentQuestionIndex, selectedAnswer,
                   showResult, results, timeLeft, startTime, isComplete, mounted,
                   crashed, mode, timerClosure, intervalNext, timeouts, delivered, submitted>>
    /\ UNCHANGED <<ttsVars, appVars>>

Next ==
    \/ \E answerIndex \in 0 .. NumOptions - 1 : HandleAnswerSelect(answerIndex)
    \/ SubmitClick
    \/ Tick
    \/ \E t \in timeouts : FireTimeout(t)
    \/ LeaveQuiz
    \/ AdvanceTime

Spec == Init /\ [][Next]_vars

TypeOK ==
    /\ currentQuestionIndex \in 0 .. Len(questions)
    /\ selectedAnswer \in {null} \cup (0 .. NumOptions - 1)
    /\ timeLeft \in 0 .. timeLimit
    /\ showResult \in BOOLEAN /\ isComplete \in BOOLEAN
    /\ mounted \in BOOLEAN /\ crashed \in BOOLEAN

\* ------------------------------------------------- text-to-speech: state
\* the keys a user or the agent's tool may supply
TypedKeys == {"", " ", "k1", "k2"}

\* String.prototype.trim on the keys of TypedKeys
Trim(k) == IF k = " " THEN "" ELSE k

\* JavaScript truthiness of a string
Truthy(k) == k # ""

\* the callers of speech: the speak handlers of LanguageLearning, of the mode-based
\* App and of the chat App, and a caller that awaits TextToSpeechService.speak
Origins == {"LanguageLearning", "App", "Chat", "caller"}

\* what the provider answers to the text-to-speech request: fetch rejects, a
\* non-success status (a body whose blob() rejects is thrown at the same place,
\* inside the try), or audio
Responses == {"networkError", "notOk", "ok"}

\* what the provider answers to GET /voices and GET /user
ReadResponses == {"networkError", "notOk", "unparsable", "nullBody", "missingField",
                  "wrongType", "ok"}

\* the state after the mount effects: a key found in localStorage (left there by
\* an earlier page session) is put in the component state and given to initTTS
TTSStart ==
    /\ storedKey \in {"", "k1"}
    /\ instances = IF Truthy(storedKey) THEN <<storedKey>> ELSE <<>>
    /\ ttsService = IF Truthy(storedKey) THEN 1 ELSE 0
    /\ keyState = storedKey
    /\ ttsEnabled = Truthy(storedKey)
    /\ calls = EmptyBag
    /\ reads = <<>>

TTSInit ==
    /\ QuizInit
    /\ questions = <<ScenarioAnswers[1]>>
    /\ timeLimit = 1
    /\ TTSStart
    /\ AppIdle

\* initTTS that reconfigures the existing service object instead of replacing it
InitTTS_InPlace(apiKey) ==
    IF ttsService = 0
    THEN /\ instances' = Append(instances, apiKey)
         /\ ttsService' = Len(instances) + 1
    ELSE /\ instances' = [instances EXCEPT ![ttsService] = apiKey]
         /\ ttsService' = ttsService

\* initTTS(apiKey): ttsService = new TextToSpeechService({ apiKey })
InitTTS(apiKey) ==
    /\ instances' = Append(instances, apiKey)
    /\ ttsService' = Len(instances) + 1

\* getTTS()
GetTTS == ttsService

\* ------------------------------------------------- text-to-speech: calls
\* a call that goes to the provider: the request is sent before the first await
RemoteCall(origin, self, apiKey) ==
    [origin |-> origin, self |-> self, key |-> apiKey,
     configured |-> (Truthy(storedKey) \/ ttsService # 0),
     pc |-> "fetching", response |-> "none", remote |-> 1, local |-> 0,
     audio |-> "none", promise |-> "pending", handler |-> "pending"]

\* a call answered by speechSynthesis.speak alone
LocalCall(origin) ==
    [origin |-> origin, self |-> 0, key |-> "",
     configured |-> (Truthy(storedKey) \/ ttsService # 0),
     pc |-> "settled", response |-> "none", remote |-> 0, local |-> 1,
     audio |-> "none", promise |-> "resolved", handler |-> "done"]

\* LanguageLearning.handleSpeak with ttsEnabled set and getTTS() null: nothing is said
SilentCall(origin) ==
    [LocalCall(origin) EXCEPT !.local = 0]

\* the test `if (elevenLabsKey)` of speakWithElevenLabs, always taken
ChatKeyPresent_Always == TRUE

\* the test `if (elevenLabsKey)` of speakWithElevenLabs
ChatKeyPresent == Truthy(keyState)

\* the call a speak handler makes
StartCall(origin) ==
    CASE origin = "LanguageLearning" ->
             IF ~ttsEnabled THEN LocalCall(origin)
             ELSE IF GetTTS # 0 THEN RemoteCall(origin, GetTTS, instances[GetTTS])
             ELSE SilentCall(origin)
      [] origin = "App" ->
             IF GetTTS # 0 THEN RemoteCall(origin, GetTTS, instances[GetTTS])
             ELSE LocalCall(origin)
      [] origin = "Chat" ->
             IF ChatKeyPresent THEN RemoteCall(origin, 0, keyState)
             ELSE LocalCall(origin)
      [] origin = "caller" -> RemoteCall(origin, GetTTS, instances[GetTTS])

\* the caller of TextToSpeechService.speak awaits each call before the next one
CallerIdle ==
    \A c \in BagToSet(calls) : c.origin = "caller" => c.promise # "pending"

\* the calls with the record c replaced by d
Replace(c, d) == (calls (-) SetToBag({c})) (+) SetToBag({d})

\* a speak handler is invoked
Speak(origin) ==
    /\ BagCardinality(calls) < MaxCalls
    /\ origin = "caller" => (GetTTS # 0 /\ CallerIdle)
    /\ calls' = calls (+) SetToBag({StartCall(origin)})
    /\ UNCHANGED <<storedKey, instances, ttsService, keyState, ttsEnabled, reads>>
    /\ UNCHANGED <<quizVars, appVars>>

\* the catch of TextToSpeechService.speak throwing the error on
SpeakCatch_Rethrow(c) ==
    [c EXCEPT !.pc = "settled", !.promise = "rejected"]

\* the catch of TextToSpeechService.speak sending the request again
SpeakCatch_Retry(c) ==
    [c EXCEPT !.pc = "fetching", !.remote = @ + 1]

\* the catch of TextToSpeechService.speak: fallbackSpeak(text), then the promise
\* of the async function resolves
SpeakCatch(c) ==
    [c EXCEPT !.pc = "settled", !.local = @ + 1, !.promise = "resolved",
              !.handler = "done"]

\* TextToSpeechService.speak resolving as soon as play() was called
SpeakPlay_ResolveEarly(c) ==
    [c EXCEPT !.pc = "playing", !.audio = "playing", !.promise = "resolved",
              !.handler = "done"]

\* TextToSpeechService.speak on audio: new Audio, play(), and the returned
\* promise stays pending until onended or onerror
SpeakPlay(c) ==
    [c EXCEPT !.pc = "playing", !.audio = "playing"]

\* speakWithElevenLabs when the request failed: the local synthesizer speaks
ChatFallback(c) ==
    [c EXCEPT !.pc = "settled", !.local = @ + 1, !.promise = "resolved",
              !.handler = "done"]

\* speakWithElevenLabs on audio: audio.play() is not awaited and the function returns
ChatPlay(c) ==
    [c EXCEPT !.pc = "playing", !.audio = "playing", !.promise = "resolved",
              !.handler = "done"]

\* the call after the provider's answer r
AfterResponse(c, r) ==
    LET d == [c EXCEPT !.response = r]
    IN  IF c.origin = "Chat"
        THEN IF r = "ok" THEN ChatPlay(d) ELSE ChatFallback(d)
        ELSE IF r = "ok" THEN SpeakPlay(d) ELSE SpeakCatch(d)

\* the provider answers the request of call c
Respond(c, r) ==
    /\ BagIn(c, calls)
    /\ c.pc = "fetching"
    /\ calls' = Replace(c, AfterResponse(c, r))
    /\ UNCHANGED <<storedKey, instances, ttsService, keyState, ttsEnabled, reads>>
    /\ UNCHANGED <<quizVars, appVars>>

\* the call after audio.onended: resolve() of the playback promise
AfterPlayEnded(c) ==
    [c EXCEPT !.pc = "settled", !.audio = "ended",
              !.promise = IF @ = "pending" THEN "resolved" ELSE @,
              !.handler = "done"]

\* the playback of call c ends
PlayEnded(c) ==
    /\ BagIn(c, calls)
    /\ c.audio = "playing"
    /\ calls' = Replace(c, AfterPlayEnded(c))
    /\ UNCHANGED <<storedKey, instances, ttsService, keyState, ttsEnabled, reads>>
    /\ UNCHANGED <<quizVars, appVars>>

\* the call after audio.onerror, or after the promise of audio.play() rejected.
\* TextToSpeechService.speak returned the playback promise without awaiting it, so
\* its catch does not run: speak rejects; the catch of handleSpeak then uses the
\* local synthesizer, a caller of speak sees the rejection.  speakWithElevenLabs
\* has already returned: the rejection of play() is handled by nobody.
AfterPlayFailed(c) ==
    CASE c.origin \in {"LanguageLearning", "App"} ->
             [c EXCEPT !.pc = "settled", !.audio = "failed", !.promise = "rejected",
                       !.local = @ + 1, !.handler = "done"]
      [] c.origin = "caller" ->
             [c EXCEPT !.pc = "settled", !.audio = "failed", !.promise = "rejected",
                       !.handler = "rejected"]
      [] c.origin = "Chat" ->
             [c EXCEPT !.pc = "settled", !.audio = "failed", !.handler = "unhandled"]

\* the playback of call c fails
PlayFailed(c) ==
    /\ BagIn(c, calls)
    /\ c.audio = "playing"
    /\ calls' = Replace(c, AfterPlayFailed(c))
    /\ UNCHANGED <<storedKey, instances, ttsService, keyState, ttsEnabled, reads>>
    /\ UNCHANGED <<quizVars, appVars>>

\* ------------------------------------------------- text-to-speech: keys
\* LanguageLearning.handleSaveElevenLabsKey with k in the field
HandleSaveElevenLabsKey(k) ==
    /\ Truthy(Trim(k))
    /\ Len(instances) < MaxInstances
    /\ storedKey' = Trim(k)
    /\ InitTTS(Trim(k))
    /\ ttsEnabled' = TRUE
    /\ UNCHANGED <<keyState, calls, reads>>
    /\ UNCHANGED <<quizVars, appVars>>

\* the "Save API Key" button of the mode-based App with k in the field
SaveApiKey(k) ==
    /\ Truthy(Trim(k))
    /\ Len(instances) < MaxInstances
    /\ storedKey' = k
    /\ InitTTS(k)
    /\ UNCHANGED <<keyState, ttsEnabled, calls, reads>>
    /\ UNCHANGED <<quizVars, appVars>>

\* the agent's tool setElevenLabsKey: the key is stored, initTTS is not called
SetElevenLabsKey(k) ==
    /\ storedKey' = k
    /\ UNCHANGED <<instances, ttsService, keyState, ttsEnabled, calls, reads>>
    /\ UNCHANGED <<quizVars, appVars>>

\* ------------------------------------------------- text-to-speech: reads
\* getVoices(): `data.voices || []`, and [] from the catch
GetVoices(r) ==
    CASE r = "ok" -> [threw |-> FALSE, kind |-> "list", value |-> "voices"]
      [] r = "wrongType" -> [threw |-> FALSE, kind |-> "string", value |-> "x"]
      [] OTHER -> [threw |-> FALSE, kind |-> "list", value |-> "empty"]

\* checkCredits(): `data.subscription?.character_count || 0`, and 0 from the catch
CheckCredits(r) ==
    CASE r = "ok" -> [threw |-> FALSE, kind |-> "number", value |-> "credits"]
      [] r = "wrongType" -> [threw |-> FALSE, kind |-> "string", value |-> "x"]
      [] OTHER -> [threw |-> FALSE, kind |-> "number", value |-> "0"]

\* getVoices or checkCredits is called on the service and the provider answers r
Read(op, r) ==
    /\ GetTTS # 0
    /\ Len(reads) < MaxReads
    /\ reads' = Append(reads, [op |-> op, response |-> r,
                               result |-> IF op = "getVoices" THEN GetVoices(r)
                                          ELSE CheckCredits(r)])
    /\ UNCHANGED <<storedKey, instances, ttsService, keyState, ttsEnabled, calls>>
    /\ UNCHANGED <<quizVars, appVars>>

TTSNext ==
    \/ \E origin \in Origins : Speak(origin)
    \/ \E c \in BagToSet(calls), r \in Responses : Respond(c, r)
    \/ \E c \in BagToSet(calls) : PlayEnded(c)
    \/ \E c \in BagToSet(calls) : PlayFailed(c)
    \/ \E k \in TypedKeys : HandleSaveElevenLabsKey(k)
    \/ \E k \in TypedKeys : SaveApiKey(k)
    \/ \E k \in TypedKeys : SetElevenLabsKey(k)

TTSSpec == TTSInit /\ [][TTSNext]_vars

\* getVoices and checkCredits are functions of the provider's answer alone: they are
\* checked on a service that was configured from a stored key
ReadInit ==
    /\ TTSInit
    /\ Truthy(storedKey)

ReadNext == \E op \in {"getVoices", "checkCredits"}, r \in ReadResponses : Read(op, r)

ReadSpec == ReadInit /\ [][ReadNext]_vars

\* ---------------------------------------------------------------- claims
\* every QuizResult of the session: in the results state, in a pending timeout's
\* newResults, or handed to onComplete
Records ==
    {results[i] : i \in 1 .. Len(results)}
    \cup UNION {{t.newResults[i] : i \in 1 .. Len(t.newResults)} : t \in timeouts}
    \cup UNION {{delivered[k].results[i] : i \in 1 .. Len(delivered[k].results)} :
                    k \in 1 .. Len(delivered)}

\* a step of the interval callback that expires a question nobody submitted
ExpiresUnsubmitted ==
    /\ mounted /\ ~showResult /\ showResult'
    /\ intervalNext' # intervalNext

\* C1: after every advance of currentQuestionIndex the number of recorded results
\* equals the new index (each question is advanced past once, with one record).
C1_ResultsMatchIndexAfterAdvance ==
    [][currentQuestionIndex' # currentQuestionIndex
          => Len(results') = currentQuestionIndex']_vars

\* C2: once the current question is locked (showResult), no step before the advance
\* appends or replaces a record or schedules another auto-advance timeout.
C2_FinalizedExactlyOnce ==
    [][(mounted /\ showResult /\ currentQuestionIndex' = currentQuestionIndex)
          => (results' = results /\ timeouts' \subseteq timeouts)]_vars

\* C3: when the timer expires on a question that was not submitted, the record it
\* creates is for the current question and has selected = null and correct = false,
\* whether or not an option had been clicked.
C3_ExpiryRecordsNoSelection ==
    [][ExpiresUnsubmitted
          => /\ Len(results') > 0
             /\ results'[Len(results')].questionId = currentQuestionIndex
             /\ results'[Len(results')].selected = null
             /\ results'[Len(results')].correct = FALSE]_vars

\* C3 witness: the timer expired on a question whose option had been clicked but
\* not submitted, and the record holds no selection.
C3_Witness ==
    /\ mounted /\ showResult /\ timeLeft = 0
    /\ selectedAnswer # null
    /\ currentQuestionIndex \notin submitted
    /\ Len(results) > 0
    /\ results[Len(results)].questionId = currentQuestionIndex
    /\ results[Len(results)].selected = null

\* C4: in every record, correct is true exactly when selected equals the
\* correctAnswer of the record's question, and a null selection is incorrect.
C4_CorrectIffSelectedIsCorrectAnswer ==
    \A r \in Records :
        /\ r.correct <=> (r.selected = questions[r.questionId + 1])
        /\ r.selected = null => ~r.correct

\* C4 witness: the scenario, correct answers [1,0,2] and submitted selections
\* [1,1,2], delivered as [correct, incorrect, correct].
C4_Witness ==
    /\ questions = <<1, 0, 2>>
    /\ \E k \in 1 .. Len(delivered) :
          LET rs == delivered[k].results
          IN  /\ Len(rs) = 3
              /\ [i \in 1 .. 3 |-> rs[i].selected] = <<1, 1, 2>>
              /\ [i \in 1 .. 3 |-> rs[i].correct] = <<TRUE, FALSE, TRUE>>
              /\ [i \in 1 .. 3 |-> rs[i].questionId] = <<0, 1, 2>>

\* C5: every score passed to onComplete is 100 * (correct records) / (number of
\* questions of the session), rounded half up.
C5_ScoreOverAllQuestions ==
    \A k \in 1 .. Len(delivered) :
        delivered[k].score =
            RoundPercent(CorrectCount(delivered[k].results), Len(questions))

\* C6: 0 <= currentQuestionIndex <= questions.length, and currentQuestionIndex <
\* questions.length while the session is not complete.
C6_IndexInRange ==
    /\ currentQuestionIndex >= 0
    /\ currentQuestionIndex <= Len(questions)
    /\ ~isComplete => currentQuestionIndex < Len(questions)

\* C7: every record's timeSpent is between 0 and the per-question time limit.
C7_TimeSpentWithinLimit ==
    \A r \in Records : r.timeSpent >= 0 /\ r.timeSpent <= timeLimit

\* C8: a question starts with timeLeft = timeLimit, and unless the user submits it,
\* it is neither expired nor advanced past before timeLimit seconds have elapsed
\* since it became current.
C8_FullTimePerQuestion ==
    [][/\ (mounted' /\ currentQuestionIndex' # currentQuestionIndex)
            => timeLeft' = timeLimit
       /\ (/\ mounted
           /\ currentQuestionIndex \notin submitted
           /\ \/ currentQuestionIndex' # currentQuestionIndex
              \/ ExpiresUnsubmitted)
            => now - startTime >= timeLimit * UnitsPerSecond]_vars

C10_CompletionIsTerminal ==
    [][isComplete
          => /\ results' = results
             /\ currentQuestionIndex' = currentQuestionIndex
             /\ delivered' = delivered]_vars

\* a step in which a pending auto-advance timeout fires
TimeoutFires == timeouts' # timeouts /\ timeouts' \subseteq timeouts

\* C11: an advance attempted on a session that is already complete changes nothing:
\* it is not accepted as a repeated completion.
C11_AdvanceOnCompleteChangesNothing ==
    [][(isComplete /\ TimeoutFires)
          => /\ Len(delivered') = Len(delivered)
             /\ results' = results
             /\ currentQuestionIndex' = currentQuestionIndex
             /\ isComplete']_vars

\* a step in which an option is clicked while the current question is locked
LockedSelect == mounted /\ showResult /\ selectOutcome' # "none"

C13_SelectionIsTentative ==
    [][/\ selectOutcome' = "selected"
            => /\ selectedAnswer' # null
               /\ results' = results
               /\ timeouts' = timeouts
               /\ ~showResult'
               /\ currentQuestionIndex' = currentQuestionIndex
       /\ submitted' # submitted
            => /\ Len(results') > 0
               /\ results'[Len(results')].selected = selectedAnswer
               /\ results'[Len(results')].questionId = currentQuestionIndex
               /\ selectedAnswer # null]_vars

\* C13 witness: a later question was submitted and its record holds the selection.
C13_Witness ==
    /\ currentQuestionIndex > 0
    /\ currentQuestionIndex \in submitted
    /\ showResult
    /\ selectedAnswer # null
    /\ Len(results) > 0
    /\ results[Len(results)].selected = selectedAnswer
    /\ results[Len(results)].questionId = currentQuestionIndex

\* ------------------------------------------------- claims on text-to-speech
\* the calls made by the speak handlers of the user interfaces
UICalls == {c \in BagToSet(calls) : c.origin # "caller"}

\* the calls that run TextToSpeechService.speak
ServiceCalls == {c \in BagToSet(calls) : c.self # 0}

\* C14: a UI speak handler invoked while no key is configured (nothing stored and
\* initTTS never called) uses only the local synthesizer and sends no remote request
C14_NoKeyOnlyLocal ==
    \A c \in UICalls :
        ~c.configured => /\ c.remote = 0
                         /\ c.local = 1
                         /\ c.audio = "none"
                         /\ c.pc = "settled"

\* the chat App and the LanguageLearning handler have both spoken without a key
C14_Witness ==
    /\ \E c \in UICalls : c.origin = "Chat" /\ ~c.configured /\ c.local = 1
    /\ \E c \in UICalls : c.origin = "LanguageLearning" /\ ~c.configured /\ c.local = 1

\* C15: with a key configured, a remote request that fails (network error or a
\* non-success status) makes speak invoke the fallback synthesizer and resolve
C15_RequestFailureFallsBack ==
    \A c \in ServiceCalls :
        c.response \in {"networkError", "notOk"} =>
            /\ c.remote = 1
            /\ c.local = 1
            /\ c.promise = "resolved"
            /\ c.pc = "settled"

\* speak has fallen back once after a network error and once after a bad status
C15_Witness ==
    /\ \E c \in ServiceCalls :
           c.origin = "caller" /\ c.response = "networkError" /\ c.local = 1
    /\ \E c \in ServiceCalls :
           c.origin = "caller" /\ c.response = "notOk" /\ c.local = 1

\* C16: whatever fails, the playback included (audio.onerror, play() rejecting),
\* speak falls back to the local synthesizer and its promise never rejects
C16_SpeakNeverRejects ==
    \A c \in ServiceCalls : c.promise # "rejected"

\* the awaited calls whose audio is playing
CallerPlaying == {c \in BagToSet(calls) : c.origin = "caller" /\ c.audio = "playing"}

\* C17: on success speak resolves only after the playback has ended, so a caller
\* that awaits each call never has two remote audios playing at once
C17_ResolvesAfterPlayback ==
    /\ \A c \in ServiceCalls :
           (c.response = "ok" /\ c.promise = "resolved") => c.audio = "ended"
    /\ Cardinality(CallerPlaying) <= 1
    /\ \A c \in CallerPlaying : CopiesIn(c, calls) = 1

\* the awaiting caller's first audio has ended and its second one is playing
C17_Witness ==
    /\ \E c \in ServiceCalls :
           c.origin = "caller" /\ c.audio = "ended" /\ c.promise = "resolved"
    /\ \E c \in ServiceCalls :
           c.origin = "caller" /\ c.audio = "playing" /\ c.promise = "pending"

\* C18: a speak call, of the service or of a UI handler that wraps it, sends at most
\* one remote request: a failure is answered by the local synthesizer, not by a retry
C18_AtMostOneRequest ==
    \A c \in BagToSet(calls) :
        c.remote <= 1

\* a handler that wraps speak has fallen back after a failed playback, and a call of
\* the service after a failed request
C18_Witness ==
    /\ \E c \in UICalls : c.self # 0 /\ c.audio = "failed" /\ c.remote = 1 /\ c.local = 1
    /\ \E c \in BagToSet(calls) : c.response = "notOk" /\ c.remote = 1 /\ c.local = 1

\* C19: getVoices returns the empty list and checkCredits returns 0 on any failure:
\* network error, non-success status, unparsable or unexpected body
C19_FailureGivesEmpty ==
    \A i \in 1 .. Len(reads) :
        reads[i].response # "ok" =>
            /\ ~reads[i].result.threw
            /\ reads[i].op = "getVoices" =>
                   (reads[i].result.kind = "list" /\ reads[i].result.value = "empty")
            /\ reads[i].op = "checkCredits" =>
                   (reads[i].result.kind = "number" /\ reads[i].result.value = "0")

\* C20: when initTTS is called with another key while a speak call is in flight, the
\* call keeps the key that was configured when it started; the new key is used by
\* the calls started afterwards
C20_InFlightKeepsKey ==
    \A c \in ServiceCalls :
        /\ c.self \in 1 .. Len(instances)
        /\ instances[c.self] = c.key

\* a call that started with k1 is still in flight after initTTS("k2"), and a call
\* started afterwards uses k2
C20_Witness ==
    \E c, d \in ServiceCalls :
        /\ c.key = "k1" /\ c.pc = "playing" /\ c.self < d.self
        /\ d.key = "k2" /\ d.self = ttsService /\ d.pc = "fetching"

\* C21: every speak request issued from the UI, whatever the outcome of the remote
\* request and of the playback, ends with the remote audio played or the local
\* synthesizer invoked, and never in an unhandled rejection without the fallback
C21_SpokenOneWayOrTheOther ==
    \A c \in UICalls :
        c.pc = "settled" => /\ c.audio = "ended" \/ c.local >= 1
                            /\ c.handler # "unhandled"

\* ------------------------------------------------- agent memory tools
\* the keys and the values the model gives to the memory tools
MemKeys == {"a", "b", "c"}

MemValues == {"x", "y"}

\* everything but the agent's memory
exceptMem == <<quizVars, ttsVars, chatVars, hostVars>>

\* const currentMemory = agentState.memory || {}
CurrentMemory ==
    IF "memory" \in DOMAIN agentState THEN agentState.memory ELSE EmptyObject

\* setMemory building the new memory from the new entry alone
Merge_Overwrite(currentMemory, key, value) ==
    [k \in {key} |-> value]

\* { ...currentMemory, [key]: value }
Merge(currentMemory, key, value) ==
    [k \in DOMAIN currentMemory \cup {key} |->
        IF k = key THEN value ELSE currentMemory[k]]

\* const { [key]: _, ...updatedMemory } = currentMemory
Without(currentMemory, key) ==
    [k \in DOMAIN currentMemory \ {key} |-> currentMemory[k]]

\* agent.setState({ memory: updatedMemory })
SetState(updatedMemory) ==
    agentState' = [f \in {"memory"} |-> updatedMemory]

\* the tool setMemory
SetMemory(key, value) ==
    /\ SetState(Merge(CurrentMemory, key, value))
    /\ lastTool' = [op |-> "setMemory", key |-> key, value |-> value,
                    before |-> CurrentMemory]
    /\ UNCHANGED exceptMem

\* the tool forgetMemory
ForgetMemory(key) ==
    /\ SetState(Without(CurrentMemory, key))
    /\ lastTool' = [op |-> "forgetMemory", key |-> key, value |-> "",
                    before |-> CurrentMemory]
    /\ UNCHANGED exceptMem

MemInit == QuizFixed /\ TTSIdle /\ AppIdle

MemNext ==
    \/ \E key \in MemKeys, value \in MemValues : SetMemory(key, value)
    \/ \E key \in MemKeys : ForgetMemory(key)

MemSpec == MemInit /\ [][MemNext]_vars

MaxExchanges == 2

\* what the user may have in the input box
Inputs == {"", " ", "hello", "grammar quiz", "word test"}

\* the quiz generateQuiz(input) attaches to the response, if the input asks for one
QuizOf(text) ==
    CASE text = "grammar quiz" -> "grammar"
      [] text = "word test" -> "vocabulary"
      [] OTHER -> "none"

\* everything but the standalone chat
exceptChat == <<quizVars, ttsVars, memVars, hostVars>>

\* the Textarea onChange and the suggestion buttons: setInput(text)
SetInput(text) ==
    /\ input' = text
    /\ submitOutcome' = "none"
    /\ UNCHANGED <<messages, isLoading, pendingReplies, selectedAnswers, quizResults,
                   lastClick>>
    /\ UNCHANGED exceptChat

\* the guard of handleSubmit without the isLoading test
SubmitBlocked_EmptyOnly == Trim(input) = ""

\* if (!input.trim() || isLoading) return;
SubmitBlocked == Trim(input) = "" \/ isLoading

UserMessages == {i \in 1 .. Len(messages) : messages[i].role = "user"}

\* handleSubmit, from the form's onSubmit or from Enter in the Textarea
HandleSubmit ==
    /\ IF SubmitBlocked
       THEN /\ submitOutcome' = "ignored"
            /\ UNCHANGED <<messages, input, isLoading, pendingReplies>>
       ELSE /\ Cardinality(UserMessages) < MaxExchanges
            /\ submitOutcome' = "accepted"
            /\ isLoading' = TRUE
            /\ messages' = Append(messages, [role |-> "user", content |-> input,
                                             quiz |-> "none"])
            /\ input' = ""
            /\ pendingReplies' = pendingReplies \cup {[input |-> input]}
    /\ UNCHANGED <<selectedAnswers, quizResults, lastClick>>
    /\ UNCHANGED exceptChat

\* the setTimeout callback of handleSubmit, 2 s later, with the input it captured
Reply(r) ==
    /\ r \in pendingReplies
    /\ pendingReplies' = pendingReplies \ {r}
    /\ messages' = Append(messages, [role |-> "assistant", content |-> "response",
                                     quiz |-> QuizOf(r.input)])
    /\ isLoading' = FALSE
    /\ submitOutcome' = "none"
    /\ UNCHANGED <<input, selectedAnswers, quizResults, lastClick>>
    /\ UNCHANGED exceptChat

ChatInit == QuizFixed /\ TTSIdle /\ AppIdle

ChatNext ==
    \/ \E text \in Inputs : SetInput(text)
    \/ HandleSubmit
    \/ \E r \in pendingReplies : Reply(r)

ChatSpec == ChatInit /\ [][ChatNext]_vars

\* after the system message the roles alternate user, assistant
Alternates(ms) ==
    /\ ms[1].role = "system"
    /\ \A i \in 2 .. Len(ms) :
           ms[i].role = (IF i % 2 = 0 THEN "user" ELSE "assistant")

\* C29: a submit with empty or whitespace-only input, or while a response is
\* pending, changes nothing; every accepted user message is followed by exactly one
\* assistant message, so the list alternates user, assistant after the system
\* message, and isLoading is true exactly while the last message is an unanswered
\* user message
C29_ChatAlternates ==
    [][/\ submitOutcome' = "ignored" =>
              /\ Trim(input) = "" \/ isLoading
              /\ UNCHANGED <<messages, input, isLoading, pendingReplies>>
       /\ submitOutcome' = "accepted" =>
              /\ Trim(input) # "" /\ ~isLoading
              /\ Len(messages') = Len(messages) + 1
       /\ Alternates(messages')
       /\ isLoading' = (messages'[Len(messages')].role = "user")
       /\ Cardinality(pendingReplies') = (IF isLoading' THEN 1 ELSE 0)]_vars

\* a submit was ignored while the second user message waited for its response, with
\* text in the input box
C29_Witness ==
    /\ submitOutcome = "ignored"
    /\ isLoading
    /\ Trim(input) # ""
    /\ Len(messages) = 4
    /\ messages[3].role = "assistant"

\* ------------------------------------------------- quiz inside a chat message
\* options of every question of generateQuiz
InlineOptions == 4

\* correctAnswer of the questions of generateQuiz
InlineAnswers(kind) ==
    IF kind = "grammar" THEN <<0, 1, 2>> ELSE <<1, 2, 1>>

\* the questions on screen: message index and question index
InlineQuestions ==
    {<<m, q>> : m \in {i \in 1 .. Len(messages) : messages[i].quiz # "none"},
                q \in 1 .. Len(InlineAnswers("grammar"))}

\* `${message.id}-${question.id}`: message ids are timestamps of responses that are
\* at least 2 s apart and question ids are distinct within a quiz, so the key
\* names one question of one message
QuestionKey(m, q) == <<m, q>>

\* question.correctAnswer
CorrectAnswer(m, q) == InlineAnswers(messages[m].quiz)[q]

\* the option buttons never disabled
ShowResult_Never(key) == FALSE

\* const showResult = selectedAnswers[questionKey] !== undefined
ShowResult(key) == key \in DOMAIN selectedAnswers

\* a click on option opt of question q of message m; a disabled button has no handler
InlineClick(m, q, opt) ==
    LET questionKey == QuestionKey(m, q)
        isCorrect == (opt = CorrectAnswer(m, q))
    IN  /\ <<m, q>> \in InlineQuestions
        /\ IF ShowResult(questionKey)
           THEN /\ lastClick' = [m |-> m, q |-> q, opt |-> opt, outcome |-> "disabled"]
                /\ UNCHANGED <<selectedAnswers, quizResults>>
           ELSE /\ lastClick' = [m |-> m, q |-> q, opt |-> opt, outcome |-> "selected"]
                /\ selectedAnswers' = Merge(selectedAnswers, questionKey, opt)
                /\ quizResults' = Merge(quizResults, questionKey, isCorrect)
        /\ submitOutcome' = "none"
        /\ UNCHANGED <<messages, input, isLoading, pendingReplies>>
        /\ UNCHANGED exceptChat

\* a chat in which a grammar quiz and a vocabulary quiz have been generated
InlineInit ==
    /\ QuizFixed /\ TTSIdle /\ MemIdle /\ HostIdle
    /\ messages = SystemOnly \o
          <<[role |-> "user", content |-> "grammar quiz", quiz |-> "none"],
            [role |-> "assistant", content |-> "response", quiz |-> "grammar"],
            [role |-> "user", content |-> "word test", quiz |-> "none"],
            [role |-> "assistant", content |-> "response", quiz |-> "vocabulary"]>>
    /\ input = ""
    /\ isLoading = FALSE
    /\ pendingReplies = {}
    /\ submitOutcome = "none"
    /\ selectedAnswers = EmptyObject
    /\ quizResults = EmptyObject
    /\ lastClick = NoClick

InlineNext ==
    \E m \in 1 .. Len(messages), q \in 1 .. Len(InlineAnswers("grammar")),
       opt \in 0 .. InlineOptions - 1 : InlineClick(m, q, opt)

InlineSpec == InlineInit /\ [][InlineNext]_vars

\* C23: in the quiz of a chat message the first option clicked for a question
\* finalizes it at once: selectedAnswers and quizResults of the question are set
\* once, quizResults is true exactly when the selected option is correctAnswer, and
\* no later click changes either value
C23_FirstClickFinalizes ==
    [][\A mq \in InlineQuestions :
          LET key == QuestionKey(mq[1], mq[2])
          IN  /\ key \in DOMAIN selectedAnswers' <=> key \in DOMAIN quizResults'
              /\ key \in DOMAIN selectedAnswers' =>
                     quizResults'[key] = (selectedAnswers'[key] = CorrectAnswer(mq[1], mq[2]))
              /\ key \in DOMAIN selectedAnswers =>
                     /\ key \in DOMAIN selectedAnswers'
                     /\ selectedAnswers'[key] = selectedAnswers[key]
                     /\ quizResults'[key] = quizResults[key]
              /\ (key \notin DOMAIN selectedAnswers /\ lastClick'.m = mq[1]
                      /\ lastClick'.q = mq[2]) =>
                     /\ key \in DOMAIN selectedAnswers'
                     /\ selectedAnswers'[key] = lastClick'.opt
              /\ (key \notin DOMAIN selectedAnswers
                      /\ (lastClick'.m # mq[1] \/ lastClick'.q # mq[2])) =>
                     key \notin DOMAIN selectedAnswers']_vars

\* a second click on an answered question, on another option, did nothing; the two
\* messages hold a right and a wrong answer to their first questions
C23_Witness ==
    /\ lastClick.outcome = "disabled"
    /\ QuestionKey(lastClick.m, lastClick.q) \in DOMAIN selectedAnswers
    /\ selectedAnswers[QuestionKey(lastClick.m, lastClick.q)] # lastClick.opt
    /\ lastClick.opt = CorrectAnswer(lastClick.m, lastClick.q)
    /\ ~quizResults[QuestionKey(lastClick.m, lastClick.q)]
    /\ \E key \in DOMAIN quizResults : quizResults[key]

\* ------------------------------------------------- flashcards in their two hosts
\* cards of a deck created in LanguageLearning
MaxCards == 3

\* the sample flashcards of the mode-based App
AppDeckSize == 3

\* everything but the state of the two hosts
exceptHost == <<quizVars, ttsVars, memVars, chatVars>>

\* what the create handlers own in LanguageLearning
createVars == <<learningMode, flashcards, quizQuestions, learningLoading, error,
                pendingCreates, lastCreate>>

Min(a, b) == IF a < b THEN a ELSE b

Max(a, b) == IF a > b THEN a ELSE b

\* LanguageLearning shows the Flashcard component
LearningCardShown == learningMode = "flashcards" /\ Len(flashcards) > 0

\* LanguageLearning onNext without the Math.min
LearningNextIndex_Unclamped(prev) == prev + 1

\* LanguageLearning onNext: Math.min(prev + 1, flashcards.length - 1)
LearningNextIndex(prev) == Min(prev + 1, Len(flashcards) - 1)

\* LanguageLearning onPrevious: Math.max(prev - 1, 0)
LearningPreviousIndex(prev) == Max(prev - 1, 0)

\* App.handleNextCard: (prev + 1) % flashcards.length
AppNextIndex(prev) == (prev + 1) % AppDeckSize

\* App.handlePreviousCard: (prev - 1 + flashcards.length) % flashcards.length
AppPreviousIndex(prev) == (prev - 1 + AppDeckSize) % AppDeckSize

\* The Next button is disabled on the last card and the Previous button on the
\* first one; a swipe (touch or mouse, more than 100 px) calls onNext or onPrevious
\* on any card.
NavEnabled(action, via, index, length) ==
    \/ via = "swipe"
    \/ via = "button" /\ action = "next" /\ index # length - 1
    \/ via = "button" /\ action = "previous" /\ index # 0

\* onNext / onPrevious of the Flashcard in LanguageLearning
LearningNavigate(action, via) ==
    /\ LearningCardShown
    /\ NavEnabled(action, via, currentCardIndex, Len(flashcards))
    /\ currentCardIndex' = IF action = "next" THEN LearningNextIndex(currentCardIndex)
                           ELSE LearningPreviousIndex(currentCardIndex)
    /\ isCardFlipped' = FALSE
    /\ lastNav' = [host |-> "LanguageLearning", action |-> action, via |-> via,
                   from |-> currentCardIndex]
    /\ UNCHANGED <<currentFlashcardIndex, appCardFlipped>>
    /\ UNCHANGED createVars
    /\ UNCHANGED exceptHost

\* onFlip of the Flashcard in LanguageLearning: setIsCardFlipped(!isCardFlipped)
LearningFlip ==
    /\ LearningCardShown
    /\ isCardFlipped' = ~isCardFlipped
    /\ lastNav' = [host |-> "LanguageLearning", action |-> "flip", via |-> "click",
                   from |-> currentCardIndex]
    /\ UNCHANGED <<currentCardIndex, currentFlashcardIndex, appCardFlipped>>
    /\ UNCHANGED createVars
    /\ UNCHANGED exceptHost

\* handleNextCard / handlePreviousCard of the mode-based App
AppNavigate(action, via) ==
    /\ NavEnabled(action, via, currentFlashcardIndex, AppDeckSize)
    /\ currentFlashcardIndex' = IF action = "next" THEN AppNextIndex(currentFlashcardIndex)
                                ELSE AppPreviousIndex(currentFlashcardIndex)
    /\ appCardFlipped' = FALSE
    /\ lastNav' = [host |-> "App", action |-> action, via |-> via,
                   from |-> currentFlashcardIndex]
    /\ UNCHANGED <<currentCardIndex, isCardFlipped>>
    /\ UNCHANGED createVars
    /\ UNCHANGED exceptHost

\* handleFlipCard of the mode-based App
AppFlip ==
    /\ appCardFlipped' = ~appCardFlipped
    /\ lastNav' = [host |-> "App", action |-> "flip", via |-> "click",
                   from |-> currentFlashcardIndex]
    /\ UNCHANGED <<currentCardIndex, isCardFlipped, currentFlashcardIndex>>
    /\ UNCHANGED createVars
    /\ UNCHANGED exceptHost

\* LanguageLearning showing a deck that handleCreateFlashcards has loaded
DeckInit ==
    /\ QuizFixed /\ TTSIdle /\ MemIdle /\ ChatIdle
    /\ learningMode = "flashcards"
    /\ \E n \in 1 .. MaxCards : flashcards = [i \in 1 .. n |-> 1]
    /\ quizQuestions = <<>>
    /\ currentCardIndex = 0
    /\ isCardFlipped = FALSE
    /\ learningLoading = FALSE
    /\ error = ""
    /\ pendingCreates = EmptyBag
    /\ lastCreate = [what |-> "flashcards", outcome |-> "array"]
    /\ currentFlashcardIndex = 0
    /\ appCardFlipped = FALSE
    /\ lastNav = NoNav

DeckNext ==
    \/ \E action \in {"next", "previous"}, via \in {"button", "swipe"} :
           LearningNavigate(action, via)
    \/ LearningFlip
    \/ \E action \in {"next", "previous"}, via \in {"button", "swipe"} :
           AppNavigate(action, via)
    \/ AppFlip

DeckSpec == DeckInit /\ [][DeckNext]_vars

\* the index and the deck length of the host of the last flashcard action
NavIndex == IF lastNav.host = "App" THEN currentFlashcardIndex ELSE currentCardIndex

NavLength == IF lastNav.host = "App" THEN AppDeckSize ELSE Len(flashcards)

\* C24: flashcard navigation never moves past the ends of the deck: on the last card
\* a next action, by button or by swipe, leaves the index unchanged, and on the first
\* card a previous action leaves it unchanged, in every host
C24_NoMoveAtTheEnds ==
    /\ (lastNav.action = "next" /\ lastNav.from = NavLength - 1) => NavIndex = lastNav.from
    /\ (lastNav.action = "previous" /\ lastNav.from = 0) => NavIndex = lastNav.from

MaxCreates == 2

\* how a create callback can fail
CreateFailures == {"throws", "noResult", "noData", "invalidJSON"}

\* what onCreateFlashcards / onCreateQuiz can come back with: a failure, the JSON
\* text of an array of len items, or the JSON text of a single value
CreateOutcomes ==
    {[kind |-> k, len |-> 0, id |-> 0] : k \in CreateFailures}
        \cup {[kind |-> "array", len |-> n, id |-> g] : n \in 0 .. MaxCards, g \in 1 .. 2}
        \cup {[kind |-> "value", len |-> 1, id |-> g] : g \in 1 .. 2}

\* the test for success taking any data for a deck
Succeeds_Unparsed(o) == o.kind \in {"array", "value", "invalidJSON"}

\* `result && result.data`, and JSON.parse(result.data) does not throw
Succeeds(o) == o.kind \in {"array", "value"}

\* Array.isArray(parsedData) ? parsedData : [parsedData]
ItemsOf(o) == [i \in 1 .. o.len |-> o.id]

\* the message given to setError
ErrorOf(what, o) ==
    CASE o.kind = "throws" -> "Error creating " \o what
      [] o.kind = "invalidJSON" -> "Failed to parse " \o what
      [] OTHER -> "Failed to create " \o what

\* handleCreateFlashcards / handleCreateQuiz up to the await of the callback
StartCreate(what) ==
    /\ BagCardinality(pendingCreates) < MaxCreates
    /\ learningLoading' = TRUE
    /\ error' = ""
    /\ pendingCreates' = pendingCreates (+) SetToBag({what})
    /\ UNCHANGED <<learningMode, flashcards, quizQuestions, currentCardIndex,
                   isCardFlipped, lastCreate, currentFlashcardIndex, appCardFlipped,
                   lastNav>>
    /\ UNCHANGED exceptHost

\* handleCreateFlashcards / handleCreateQuiz after the await, with the finally
FinishCreate(what, o) ==
    /\ BagIn(what, pendingCreates)
    /\ pendingCreates' = pendingCreates (-) SetToBag({what})
    /\ lastCreate' = [what |-> what, outcome |-> o.kind]
    /\ IF Succeeds(o)
       THEN /\ IF what = "flashcards"
               THEN /\ flashcards' = ItemsOf(o)
                    /\ currentCardIndex' = 0
                    /\ isCardFlipped' = FALSE
                    /\ UNCHANGED quizQuestions
               ELSE /\ quizQuestions' = ItemsOf(o)
                    /\ UNCHANGED <<flashcards, currentCardIndex, isCardFlipped>>
            /\ learningMode' = what
            /\ UNCHANGED error
       ELSE /\ error' = ErrorOf(what, o)
            /\ UNCHANGED <<learningMode, flashcards, quizQuestions, currentCardIndex,
                           isCardFlipped>>
    /\ learningLoading' = FALSE
    /\ UNCHANGED <<currentFlashcardIndex, appCardFlipped, lastNav>>
    /\ UNCHANGED exceptHost

\* the buttons of the home page and the Back to Home buttons: setMode
SetMode(m) ==
    /\ (learningMode = "home") # (m = "home")
    /\ learningMode' = m
    /\ UNCHANGED <<flashcards, quizQuestions, currentCardIndex, isCardFlipped,
                   learningLoading, error, pendingCreates, lastCreate,
                   currentFlashcardIndex, appCardFlipped, lastNav>>
    /\ UNCHANGED exceptHost

CreateInit == QuizFixed /\ TTSIdle /\ AppIdle

CreateNext ==
    \/ \E what \in {"flashcards", "quiz"} : StartCreate(what)
    \/ \E what \in {"flashcards", "quiz"}, o \in CreateOutcomes : FinishCreate(what, o)
    \/ \E m \in {"home", "flashcards", "quiz", "settings"} : SetMode(m)
    \/ \E action \in {"next", "previous"}, via \in {"button", "swipe"} :
           LearningNavigate(action, via)
    \/ LearningFlip

CreateSpec == CreateInit /\ [][CreateNext]_vars

\* a create operation finishes in this step
CreateFinishes == BagCardinality(pendingCreates') < BagCardinality(pendingCreates)

\* C30: when creating flashcards or a quiz fails (the callback throws, returns no
\* data, or returns data that is not valid JSON), the loaded cards and questions,
\* the card index and the mode are left unchanged and an error message is set; in
\* every outcome isLoading is false once the operation has finished
C30_FailedCreateChangesNothing ==
    [][CreateFinishes =>
          /\ ~learningLoading'
          /\ lastCreate'.outcome \in CreateFailures =>
                 /\ UNCHANGED <<flashcards, quizQuestions, currentCardIndex,
                                isCardFlipped, learningMode>>
                 /\ error' = ErrorOf(lastCreate'.what, [kind |-> lastCreate'.outcome])]_vars

\* a quiz request has just failed on invalid JSON while the second card of a loaded
\* deck is shown
C30_Witness ==
    /\ lastCreate = [what |-> "quiz", outcome |-> "invalidJSON"]
    /\ error = "Failed to parse quiz"
    /\ ~learningLoading
    /\ pendingCreates = EmptyBag
    /\ learningMode = "flashcards"
    /\ Len(flashcards) > 1
    /\ currentCardIndex = 1
    /\ quizQuestions = <<>>

\* ------------------------------------------------- the Quiz left to its timers
\* a session in which the user never selects or submits: only the interval, the
\* auto-advance timeouts and the clock act
TimerNext ==
    \/ Tick
    \/ \E t \in timeouts : FireTimeout(t)
    \/ AdvanceTime

\* the browser runs every timer that is due: a step that stays enabled is taken
TimerSpec == Init /\ [][TimerNext]_vars /\ WF_vars(TimerNext)

\* C25: if timers keep firing, every Quiz session over a non-empty question list
\* eventually reaches the complete state and invokes onComplete, even when the
\* user never selects or submits anything
C25_TimersCompleteTheQuiz == <>(isComplete /\ delivered # <<>>)

\* C26: after the Quiz is unmounted (the user leaves during the session, or the
\* session has completed) no quiz timer fires: onComplete is not invoked and the
\* host's mode is not changed by a late timeout
C26_NoTimerAfterUnmount ==
    [][~mounted => (delivered' = delivered /\ mode' = mode)]_vars

\* ------------------------------------------------- the Quiz hosted by App
\* App.renderQuizContent: onComplete only logs, the Quiz stays mounted and renders
\* its completion screen
AppOnComplete(score, finalResults) ==
    /\ delivered' = Append(delivered, [score |-> score, results |-> finalResults])
    /\ UNCHANGED <<mode, mounted>>

\* Quiz.handleQuizComplete(finalResults) under App
AppHandleQuizComplete(finalResults) ==
    /\ isComplete' = (isComplete \/ mounted)
    /\ AppOnComplete(Score(finalResults), finalResults)

\* the setTimeout callback created by handleAnswerSubmit, under App
AppFireTimeout(t) ==
    /\ t \in timeouts
    /\ t.due = now
    /\ timeouts' = timeouts \ {t}
    /\ selectOutcome' = "none"
    /\ IF HasNextQuestion(t.currentQuestionIndex)
       THEN /\ HandleNextQuestion
            /\ UNCHANGED <<isComplete, mode, delivered>>
       ELSE /\ AppHandleQuizComplete(t.newResults)
            /\ UNCHANGED <<currentQuestionIndex, selectedAnswer, showResult, timeLeft,
                           startTime, timerClosure, intervalNext, crashed>>
    /\ UNCHANGED <<questions, timeLimit, now, results, submitted>>
    /\ UNCHANGED <<ttsVars, appVars>>

AppQuizNext ==
    \/ \E answerIndex \in 0 .. NumOptions - 1 : HandleAnswerSelect(answerIndex)
    \/ SubmitClick
    \/ Tick
    \/ \E t \in timeouts : AppFireTimeout(t)
    \/ AdvanceTime

AppQuizSpec == Init /\ [][AppQuizNext]_vars

\* the completion screen is rendered
CompletionShown == mounted /\ isComplete

\* results.filter(r => r.correct).length of the completion screen
DisplayedCorrect == CorrectCount(results)

\* Math.round((correctAnswers / results.length) * 100) of the completion screen
DisplayedScore == RoundPercent(DisplayedCorrect, Len(results))

\* C27: the score and the correct count on the completion screen are computed from
\* the records passed to onComplete: what is shown equals what was (last)
\* delivered, also when a submit happened within two seconds of the time limit
C27_DisplayedIsDelivered ==
    (CompletionShown /\ delivered # <<>>) =>
        LET d == delivered[Len(delivered)]
        IN  /\ results = d.results
            /\ DisplayedScore = d.score
            /\ DisplayedCorrect = CorrectCount(d.results)

=============================================================================
